---- MODULE Spec2Model ----
(***************************************************************************)
(* A model of QRSDetectorOffline (QRSDetectorOffline.py): the adaptive     *)
(* classifier detect_qrs, with the detector's fields as state, and the     *)
(* peak finder findpeaks.                                                  *)
(*                                                                         *)
(* Numbers.  The classifier's levels are binary fractions (the filtering   *)
(* factors are 1/8, the weight 1/4), so a level is kept as the integer     *)
(* level * LevelScale and the threshold as threshold * ThresholdScale;     *)
(* with at most MaxFed candidates fed to a detector every division below   *)
(* is exact, as it is in float64 for these values.                         *)
(***************************************************************************)
EXTENDS Integers, Sequences, FiniteSets, TLC

\* Bounds of the model.
MaxFed == 4        \* candidates handed to one detector, over all its detect_qrs calls
MaxCalls == 2      \* detect_qrs invocations on one detector
MaxLen == 4        \* samples in the sequence given to findpeaks
MaxSpacing == 4    \* spacing given to findpeaks

\* Configuration parameters set by __init__.
refractory_period == 120
signal_peak_filtering_factor == <<1, 8>>   \* 0.125 as numerator, denominator
noise_peak_filtering_factor == <<1, 8>>    \* 0.125
signal_noise_diff_weight == <<1, 4>>       \* 0.25

\* The inputs detect_qrs is tried on: indices into the integrated signal
\* around the refractory boundary (gaps of 60, 120, 121, ...), and values.
PeakIndices == {0, 60, 120, 121, 241, 242}
PeakValues == {0, 1, 40}

\* The inputs findpeaks is tried on.  A sample is a float64, written
\* <<big, small>> for big * 2^35 + small * 1e-6 (small = 0 unless big = 0):
\* below 2^34 a float64 resolves 1e-6, from 2^35 on its spacing exceeds 2e-6.
DataValues == {<<0, 0>>, <<0, 1>>, <<0, 2>>, <<1, 0>>}
NoLimit == <<>>                                 \* limit=None
Limits == {NoLimit} \cup {<<v>> : v \in DataValues}

LevelScale == signal_peak_filtering_factor[2] ^ MaxFed
ThresholdScale == LevelScale * signal_noise_diff_weight[2]

VARIABLES
    qrs_peaks_indices,       \* self.qrs_peaks_indices
    noise_peaks_indices,     \* self.noise_peaks_indices
    signal_peak_value,       \* self.signal_peak_value  (times LevelScale)
    noise_peak_value,        \* self.noise_peak_value   (times LevelScale)
    threshold_value,         \* self.threshold_value    (times ThresholdScale)
    detected_peaks_indices,  \* argument of the running detect_qrs call
    detected_peaks_values,   \* argument of the running detect_qrs call
    pos,                     \* candidates the running call's loop has consumed
    pc,                      \* "idle" (no call running) or "detect_qrs"
    calls,                   \* detect_qrs invocations started so far
    fed,                     \* candidates handed over so far, all calls
    skipped,                 \* history: candidates the running call left unclassified
    entry,                   \* history: the classifier state at the call's entry
    data,                    \* findpeaks: data, a function on 0..len-1
    spacing,                 \* findpeaks: spacing
    limit,                   \* findpeaks: limit, NoLimit or <<number>>
    x,                       \* findpeaks: the padded copy of data
    peak_candidate,          \* findpeaks: the running conjunction, on 0..len-1
    s,                       \* findpeaks: the loop variable of line 194
    ind,                     \* findpeaks: the returned indices
    fpc                      \* findpeaks: "idle", "loop" or "done"

vars == <<qrs_peaks_indices, noise_peaks_indices, signal_peak_value, noise_peak_value,
          threshold_value, detected_peaks_indices, detected_peaks_values, pos, pc,
          calls, fed, skipped, entry, data, spacing, limit, x, peak_candidate, s, ind, fpc>>

detector == <<qrs_peaks_indices, noise_peaks_indices, signal_peak_value, noise_peak_value,
              threshold_value, detected_peaks_indices, detected_peaks_values, pos, pc,
              calls, fed, skipped, entry>>

finder == <<data, spacing, limit, x, peak_candidate, s, ind, fpc>>

classifier == <<qrs_peaks_indices, noise_peaks_indices, signal_peak_value,
                noise_peak_value, threshold_value>>

----------------------------------------------------------------------------
\* Helpers on sequences and sets.

Range(seq) == {seq[k] : k \in 1..Len(seq)}

Min(S) == CHOOSE m \in S : \A n \in S : m <= n

\* The ascending, duplicate-free sequence of the elements of a set of numbers.
RECURSIVE Ascending(_)
Ascending(S) == IF S = {} THEN <<>> ELSE <<Min(S)>> \o Ascending(S \ {Min(S)})

StrictlyIncreasing(seq) == \A k \in 1..(Len(seq) - 1) : seq[k] < seq[k + 1]

----------------------------------------------------------------------------
\* detect_qrs, lines 124-155.

\* Variant: the first accepted index, [0], in place of the last, [-1].
last_qrs_index_first(qrs) == IF Len(qrs) > 0 THEN qrs[1] ELSE 0

\* try: last_qrs_index = self.qrs_peaks_indices[-1]  except IndexError: 0
last_qrs_index(qrs) == IF Len(qrs) > 0 THEN qrs[Len(qrs)] ELSE 0

\* Variant: >= in place of > in the refractory test.
Eligible_at_period(index, qrs) ==
    \/ index - last_qrs_index(qrs) >= refractory_period
    \/ Len(qrs) = 0

\* Variant: the refractory test alone, without "or not qrs_peaks_indices.size".
Eligible_gap_only(index, qrs) == index - last_qrs_index(qrs) > refractory_period

\* The condition of line 137, under which a candidate is classified.
Eligible(index, qrs) ==
    \/ index - last_qrs_index(qrs) > refractory_period
    \/ Len(qrs) = 0

\* Variant: the candidate's value appended in place of its index.
RecordedPeak_value(detected_peak_index, detected_peaks_value) == detected_peaks_value

\* What np.append records for a classified candidate, lines 141 and 147.
RecordedPeak(detected_peak_index, detected_peaks_value) == detected_peak_index

\* Variant: >= in place of > in the threshold test.
ExceedsThreshold_or_equal(value, threshold) == value * ThresholdScale >= threshold

\* detected_peaks_value > self.threshold_value, line 140.
ExceedsThreshold(value, threshold) == value * ThresholdScale > threshold

\* factor * value + (1 - factor) * level, lines 144-145 and 150-151.
FilteredLevel(factor, value, level) ==
    (factor[1] * value * LevelScale + (factor[2] - factor[1]) * level) \div factor[2]

\* noise + weight * (signal - noise), lines 154-155.
Threshold(signal, noise) ==
    signal_noise_diff_weight[2] * noise + signal_noise_diff_weight[1] * (signal - noise)

\* Variant: the threshold computed before the level is updated.
AdjustedThreshold_stale(old_signal, old_noise, new_signal, new_noise) ==
    signal_noise_diff_weight[2] * old_noise
        + signal_noise_diff_weight[1] * (old_signal - old_noise)

\* The threshold line 154 stores: computed from the levels as just updated.
AdjustedThreshold(old_signal, old_noise, new_signal, new_noise) ==
    Threshold(new_signal, new_noise)

\* The fields as __init__ sets them (lines 64-69), before it calls detect_qrs
\* (line 74); no findpeaks call is running.
Init ==
    /\ qrs_peaks_indices = <<>>
    /\ noise_peaks_indices = <<>>
    /\ signal_peak_value = 0
    /\ noise_peak_value = 0
    /\ threshold_value = 0
    /\ detected_peaks_indices = <<>>
    /\ detected_peaks_values = <<>>
    /\ pos = 0
    /\ pc = "idle"
    /\ calls = 0
    /\ fed = 0
    /\ skipped = <<>>
    /\ entry = classifier
    /\ data = <<>>
    /\ spacing = 1
    /\ limit = NoLimit
    /\ x = <<>>
    /\ peak_candidate = <<>>
    /\ s = 0
    /\ ind = <<>>
    /\ fpc = "idle"

\* Variant: detect_qrs clearing the classifier's fields on entry.
detect_qrs_call_reset ==
    /\ pc = "idle"
    /\ calls < MaxCalls
    /\ \E chosen \in SUBSET PeakIndices :
         /\ Cardinality(chosen) <= MaxFed - fed
         /\ \E values \in [1..Cardinality(chosen) -> PeakValues] :
              /\ detected_peaks_indices' = Ascending(chosen)
              /\ detected_peaks_values' = values
              /\ fed' = fed + Cardinality(chosen)
    /\ pos' = 0
    /\ pc' = "detect_qrs"
    /\ calls' = calls + 1
    /\ skipped' = <<>>
    /\ qrs_peaks_indices' = <<>>
    /\ noise_peaks_indices' = <<>>
    /\ signal_peak_value' = 0
    /\ noise_peak_value' = 0
    /\ threshold_value' = 0
    /\ entry' = <<<<>>, <<>>, 0, 0, 0>>
    /\ UNCHANGED finder

\* detect_qrs is entered with an ascending, duplicate-free candidate sequence:
\* by __init__ (line 74) the first time, by the detector's user afterwards.
detect_qrs_call ==
    /\ pc = "idle"
    /\ calls < MaxCalls
    /\ \E chosen \in SUBSET PeakIndices :
         /\ Cardinality(chosen) <= MaxFed - fed
         /\ \E values \in [1..Cardinality(chosen) -> PeakValues] :
              /\ detected_peaks_indices' = Ascending(chosen)
              /\ detected_peaks_values' = values
              /\ fed' = fed + Cardinality(chosen)
    /\ pos' = 0
    /\ pc' = "detect_qrs"
    /\ calls' = calls + 1
    /\ skipped' = <<>>
    /\ entry' = classifier
    /\ UNCHANGED <<classifier, finder>>

\* One iteration of the loop of line 129.
detect_qrs_step ==
    /\ pc = "detect_qrs"
    /\ pos < Len(detected_peaks_indices)
    /\ LET detected_peak_index == detected_peaks_indices[pos + 1]
           detected_peaks_value == detected_peaks_values[pos + 1]
       IN  IF Eligible(detected_peak_index, qrs_peaks_indices)
           THEN /\ IF ExceedsThreshold(detected_peaks_value, threshold_value)
                   THEN /\ qrs_peaks_indices' = Append(qrs_peaks_indices,
                                   RecordedPeak(detected_peak_index, detected_peaks_value))
                        /\ signal_peak_value' = FilteredLevel(signal_peak_filtering_factor,
                                                    detected_peaks_value, signal_peak_value)
                        /\ UNCHANGED <<noise_peaks_indices, noise_peak_value>>
                   ELSE /\ noise_peaks_indices' = Append(noise_peaks_indices,
                                   RecordedPeak(detected_peak_index, detected_peaks_value))
                        /\ noise_peak_value' = FilteredLevel(noise_peak_filtering_factor,
                                                    detected_peaks_value, noise_peak_value)
                        /\ UNCHANGED <<qrs_peaks_indices, signal_peak_value>>
                /\ threshold_value' = AdjustedThreshold(signal_peak_value, noise_peak_value,
                                                        signal_peak_value', noise_peak_value')
                /\ UNCHANGED skipped
           ELSE /\ skipped' = Append(skipped, detected_peak_index)
                /\ UNCHANGED classifier
    /\ pos' = pos + 1
    /\ UNCHANGED <<detected_peaks_indices, detected_peaks_values, pc, calls, fed, entry,
                   finder>>

\* The loop is exhausted and detect_qrs returns.
detect_qrs_return ==
    /\ pc = "detect_qrs"
    /\ pos = Len(detected_peaks_indices)
    /\ pc' = "idle"
    /\ UNCHANGED <<classifier, detected_peaks_indices, detected_peaks_values, pos,
                   calls, fed, skipped, entry, finder>>

Next == detect_qrs_call \/ detect_qrs_step \/ detect_qrs_return

Spec == Init /\ [][Next]_vars

----------------------------------------------------------------------------
\* Properties of the classifier, checked under Spec.

ZeroState == <<<<>>, <<>>, 0, 0, 0>>

\* The candidates the running (or last) call has consumed so far.
Processed == {detected_peaks_indices[k] : k \in 1..pos}

FirstCall == calls = 1
Returned == pc = "idle" /\ calls >= 1

\* a is an order-preserving subsequence of b, matching from positions i and j.
RECURSIVE Embeds(_, _, _, _)
Embeds(a, i, b, j) ==
    IF i > Len(a) THEN TRUE
    ELSE IF j > Len(b) THEN FALSE
    ELSE IF a[i] = b[j] THEN Embeds(a, i + 1, b, j + 1)
    ELSE Embeds(a, i, b, j + 1)

IsSubsequence(a, b) == Embeds(a, 1, b, 1)

Disjoint == Range(qrs_peaks_indices) \cap Range(noise_peaks_indices) = {}

\* C1 as stated: once the first detect_qrs call has consumed its candidates,
\* the QRS and the noise indices partition the candidate indices: each
\* candidate is in exactly one of the two sequences, and neither holds
\* anything else.
C1_Partition ==
    (FirstCall /\ Returned) =>
        /\ Disjoint
        /\ Range(qrs_peaks_indices) \cup Range(noise_peaks_indices)
               = Range(detected_peaks_indices)
        /\ Len(qrs_peaks_indices) + Len(noise_peaks_indices) = Len(detected_peaks_indices)

\* A candidate lies within the refractory period of an earlier accepted QRS.
InRefractory(c) ==
    \E k \in 1..Len(qrs_peaks_indices) :
        /\ qrs_peaks_indices[k] < c
        /\ c - qrs_peaks_indices[k] <= refractory_period

\* C1 as amended: during and after the first detect_qrs call every consumed
\* candidate is in exactly one of three classes: accepted as QRS, recorded as
\* noise, or left out of both because it lies within refractory_period of an
\* earlier accepted QRS; the two sequences hold each index once and nothing
\* but consumed candidates.
C1_ThreeClasses ==
    FirstCall =>
        /\ \A c \in Processed :
              LET q == c \in Range(qrs_peaks_indices)
                  n == c \in Range(noise_peaks_indices)
                  r == InRefractory(c)
              IN  /\ q \/ n \/ r
                  /\ ~(q /\ n) /\ ~(q /\ r) /\ ~(n /\ r)
        /\ Range(qrs_peaks_indices) \cup Range(noise_peaks_indices) \subseteq Processed
        /\ Cardinality(Range(qrs_peaks_indices)) = Len(qrs_peaks_indices)
        /\ Cardinality(Range(noise_peaks_indices)) = Len(noise_peaks_indices)

\* The first call has returned having accepted, rejected and skipped candidates.
C1_Witness ==
    /\ FirstCall /\ Returned
    /\ Len(qrs_peaks_indices) > 0
    /\ Len(noise_peaks_indices) > 0
    /\ Len(skipped) > 0

\* C2: from the third accepted QRS index on, consecutive accepted indices are
\* at least refractory_period apart.
C2_RefractorySpacing ==
    \A k \in 2..(Len(qrs_peaks_indices) - 1) :
        qrs_peaks_indices[k + 1] - qrs_peaks_indices[k] >= refractory_period

\* Three QRS indices have been accepted.
C2_Witness == Len(qrs_peaks_indices) >= 3

\* C3: in the first detect_qrs call the QRS and noise sequences are disjoint,
\* each is a strictly increasing, order-preserving subsequence of the
\* candidate indices, and QRS, noise and refractory-skipped indices together
\* are exactly the candidates consumed (all of them once the call returns).
C3_Subsequences ==
    FirstCall =>
        /\ Disjoint
        /\ IsSubsequence(qrs_peaks_indices, detected_peaks_indices)
        /\ IsSubsequence(noise_peaks_indices, detected_peaks_indices)
        /\ StrictlyIncreasing(qrs_peaks_indices)
        /\ StrictlyIncreasing(noise_peaks_indices)
        /\ Range(qrs_peaks_indices) \cup Range(noise_peaks_indices) \cup Range(skipped)
               = Processed
        /\ Returned => Processed = Range(detected_peaks_indices)

\* The first call has returned with QRS, noise and skipped candidates, two of
\* them noise.
C3_Witness ==
    /\ FirstCall /\ Returned
    /\ Len(qrs_peaks_indices) > 0
    /\ Len(noise_peaks_indices) > 1
    /\ Len(skipped) > 0

\* C6 as stated: every detect_qrs invocation starts from the zero state.
C6_StartsFromZero == calls >= 1 => entry = ZeroState

\* C6 as amended: the classifier state is zero when the constructor makes the
\* first detect_qrs call; detect_qrs does not reset it on entry, so a later
\* call starts from the state the previous call left, and no call ever drops
\* an index an earlier call recorded.
C6_StateCarriedOver ==
    [][ /\ (pc = "idle" /\ pc' = "detect_qrs") =>
              /\ classifier' = classifier
              /\ entry' = classifier
              /\ calls = 0 => classifier = ZeroState
        /\ SubSeq(qrs_peaks_indices', 1, Len(qrs_peaks_indices)) = qrs_peaks_indices
        /\ SubSeq(noise_peaks_indices', 1, Len(noise_peaks_indices)) = noise_peaks_indices
      ]_vars

\* A second call is entered with a QRS accepted and the levels raised by the first.
C6_Witness ==
    /\ calls = 2 /\ pc = "detect_qrs" /\ pos = 0
    /\ Len(qrs_peaks_indices) > 0
    /\ Len(noise_peaks_indices) > 0
    /\ threshold_value > 0
    /\ entry = classifier

\* The first detect_qrs call has consumed its first candidate.
FirstConsumed == FirstCall /\ pos >= 1

\* C7 as stated: the first candidate of the first call is accepted as QRS and
\* not recorded as noise, whatever its index and non-negative value.
C7_FirstAccepted ==
    FirstConsumed =>
        /\ Len(qrs_peaks_indices) >= 1
        /\ qrs_peaks_indices[1] = detected_peaks_indices[1]
        /\ detected_peaks_indices[1] \notin Range(noise_peaks_indices)

\* C7 as amended: the first candidate of the first call is never skipped; it
\* is accepted as QRS when its value is positive and recorded as noise when
\* its value is 0.
C7_FirstAcceptedIfPositive ==
    FirstConsumed =>
        IF detected_peaks_values[1] > 0
        THEN /\ Len(qrs_peaks_indices) >= 1
             /\ qrs_peaks_indices[1] = detected_peaks_indices[1]
             /\ detected_peaks_indices[1] \notin Range(noise_peaks_indices)
        ELSE /\ Len(noise_peaks_indices) >= 1
             /\ noise_peaks_indices[1] = detected_peaks_indices[1]
             /\ detected_peaks_indices[1] \notin Range(qrs_peaks_indices)

\* The first candidate had value 0 and went to the noise sequence.
C7_Witness ==
    /\ FirstCall /\ pos = 1
    /\ detected_peaks_values[1] = 0
    /\ noise_peaks_indices = <<detected_peaks_indices[1]>>
    /\ qrs_peaks_indices = <<>>

\* C9: a loop iteration whose candidate is at most refractory_period after
\* the last accepted QRS, with a QRS accepted, changes neither sequence,
\* neither level nor the threshold; and an iteration leaves both sequences
\* unchanged only in that case.
C9_SkipLeavesStateAlone ==
    [][ (pc = "detect_qrs" /\ pos' = pos + 1) =>
            LET c == detected_peaks_indices[pos + 1]
                last == IF qrs_peaks_indices = <<>> THEN 0
                        ELSE qrs_peaks_indices[Len(qrs_peaks_indices)]
                within == c - last <= refractory_period /\ qrs_peaks_indices # <<>>
                untouched == /\ qrs_peaks_indices' = qrs_peaks_indices
                             /\ noise_peaks_indices' = noise_peaks_indices
            IN  /\ within => classifier' = classifier
                /\ untouched => within
      ]_vars

\* A candidate exactly refractory_period after the last accepted QRS, with a
\* value above the threshold, has just been skipped.
C9_Witness ==
    /\ pc = "detect_qrs" /\ pos >= 1
    /\ Len(skipped) > 0
    /\ skipped[Len(skipped)] = detected_peaks_indices[pos]
    /\ qrs_peaks_indices # <<>>
    /\ detected_peaks_indices[pos] - qrs_peaks_indices[Len(qrs_peaks_indices)]
           = refractory_period
    /\ detected_peaks_values[pos] * ThresholdScale > threshold_value

\* C10: the threshold always equals noise + weight * (signal - noise) of the
\* current levels; an iteration that accepts a QRS sets the signal level to
\* factor * value + (1 - factor) * signal and leaves the noise level, one that
\* records noise does the same to the noise level and leaves the signal level.
C10_ThresholdFollowsLevels ==
    /\ [](threshold_value
            = signal_noise_diff_weight[2] * noise_peak_value
              + signal_noise_diff_weight[1] * (signal_peak_value - noise_peak_value))
    /\ [][ (pc = "detect_qrs" /\ pos' = pos + 1) =>
              LET value == detected_peaks_values[pos + 1] * LevelScale
                  a == signal_peak_filtering_factor
                  b == noise_peak_filtering_factor
              IN  /\ qrs_peaks_indices' # qrs_peaks_indices =>
                        /\ a[2] * signal_peak_value'
                               = a[1] * value + (a[2] - a[1]) * signal_peak_value
                        /\ noise_peak_value' = noise_peak_value
                  /\ noise_peaks_indices' # noise_peaks_indices =>
                        /\ b[2] * noise_peak_value'
                               = b[1] * value + (b[2] - b[1]) * noise_peak_value
                        /\ signal_peak_value' = signal_peak_value
         ]_vars

\* Both levels have been updated and the threshold lies strictly between them.
C10_Witness ==
    /\ noise_peak_value > 0
    /\ signal_peak_value > noise_peak_value
    /\ threshold_value > signal_noise_diff_weight[2] * noise_peak_value
    /\ Len(qrs_peaks_indices) >= 2

----------------------------------------------------------------------------
\* findpeaks, lines 177-207.

\* h_c > h_b on float64 samples.
Greater(a, b) == a[1] > b[1] \/ (a[1] = b[1] /\ a[2] > b[2])

\* value - 1.e-6 in float64 (lines 189, 190): at 2^35 and beyond the
\* difference rounds back to value.
MinusEpsilon(value) == IF value[1] # 0 THEN value ELSE <<0, value[2] - 1>>

\* x of lines 188-191: data with spacing sentinels before and after.
Padded(d, len, sp) ==
    [k \in 0..(len + 2 * sp - 1) |->
        IF k < sp THEN MinusEpsilon(d[0])
        ELSE IF k >= sp + len THEN MinusEpsilon(d[len - 1])
        ELSE d[k - sp]]

\* The comparison of line 201 at offset k of the three views of lines 195-200.
Higher(xs, sp, off, k) ==
    /\ Greater(xs[sp + k], xs[sp - off - 1 + k])
    /\ Greater(xs[sp + k], xs[sp + off + 1 + k])

\* Variant: >= in place of > in the limit test (the docstring's wording).
AboveLimit_or_equal(value, lim) == lim = NoLimit \/ ~Greater(lim[1], value)

\* data[ind] > limit, lines 205-206.
AboveLimit(value, lim) == lim = NoLimit \/ Greater(value, lim[1])

size(d) == Cardinality(DOMAIN d)

findpeaks_call ==
    /\ fpc = "idle"
    /\ \E len \in 1..MaxLen, sp \in 1..MaxSpacing, lim \in Limits :
         \E d \in [0..(len - 1) -> DataValues] :
            /\ data' = d
            /\ spacing' = sp
            /\ limit' = lim
            /\ x' = Padded(d, len, sp)
            /\ peak_candidate' = [k \in 0..(len - 1) |-> TRUE]
    /\ s' = 0
    /\ fpc' = "loop"
    /\ UNCHANGED <<ind, detector>>

\* One iteration of the loop of line 194.
findpeaks_step ==
    /\ fpc = "loop"
    /\ s < spacing
    /\ peak_candidate' = [k \in DOMAIN peak_candidate |->
                             peak_candidate[k] /\ Higher(x, spacing, s, k)]
    /\ s' = s + 1
    /\ UNCHANGED <<data, spacing, limit, x, ind, fpc, detector>>

\* Lines 203-207: the candidates left, in ascending order, above the limit.
findpeaks_return ==
    /\ fpc = "loop"
    /\ s = spacing
    /\ ind' = Ascending({k \in DOMAIN peak_candidate :
                            peak_candidate[k] /\ AboveLimit(data[k], limit)})
    /\ fpc' = "done"
    /\ UNCHANGED <<data, spacing, limit, x, peak_candidate, s, detector>>

NextPeaks == findpeaks_call \/ findpeaks_step \/ findpeaks_return

SpecPeaks == Init /\ [][NextPeaks]_vars

----------------------------------------------------------------------------
\* Properties of the peak finder, checked under SpecPeaks.

Abs(n) == IF n < 0 THEN -n ELSE n

\* data[i] is strictly above every other in-range sample within sp of it.
StrictLocalMaximum(d, sp, i) ==
    \A j \in DOMAIN d :
        (j # i /\ Abs(j - i) <= sp) =>
            (d[i][1] > d[j][1] \/ (d[i][1] = d[j][1] /\ d[i][2] > d[j][2]))

\* value > lim on samples; value >= lim.
Above(value, lim) == value[1] > lim[1] \/ (value[1] = lim[1] /\ value[2] > lim[2])
AtLeast(value, lim) == ~Above(lim, value)

\* C4 as stated: findpeaks returns exactly the ascending list of the indices
\* that are strict local maxima over their in-range neighbours within spacing
\* and, when a limit is given, lie strictly above it; the padding neither
\* rejects nor adds an index.
C4_ExactlyStrictLocalMaxima ==
    fpc = "done" =>
        ind = Ascending({i \in DOMAIN data :
                            /\ StrictLocalMaximum(data, spacing, i)
                            /\ limit = NoLimit \/ Above(data[i], limit[1])})

\* data has a single strict global maximum, at i, at least spacing away from
\* both ends.
SingleMaximumAt(i) ==
    /\ i \in DOMAIN data
    /\ \A j \in DOMAIN data : j # i => Above(data[i], data[j])
    /\ spacing <= i
    /\ spacing <= size(data) - 1 - i

====
